---- MODULE Spec2Model ----
(***************************************************************************)
(* Model of crates/sol-macro/src/expand/function.rs: the expansion of one  *)
(* ItemFunction (function, constructor or other callable entry) into the   *)
(* Call / Return bindings and their SolCall / SolConstructor impl.         *)
(*                                                                         *)
(* Option<T> is a sequence of length 0 (None) or 1 (Some).  Vec<T> and     *)
(* Parameters<T> are sequences.  Text that is hashed (the signature) is a  *)
(* sequence of tokens; identifiers are strings.                            *)
(***************************************************************************)
EXTENDS Integers, Sequences, FiniteSets, TLC

VARIABLES cx, items, out, conv

vars == <<cx, items, out, conv>>

(***************************************************************************)
(* Bounds of the model.                                                    *)
(***************************************************************************)
MaxParams == 2
MaxReturns == 1
MaxItems == 2

(***************************************************************************)
(* Option helpers (core::option).                                          *)
(***************************************************************************)
None == <<>>
Some(v) == <<v>>
is_none(o) == o = <<>>
\* Option::or
or(a, b) == IF a # <<>> THEN a ELSE b
\* Option::unwrap_or
unwrap_or(o, d) == IF o # <<>> THEN o[1] ELSE d
\* bool::then
then(b, v) == IF b THEN <<v>> ELSE <<>>

Range(s) == {s[i] : i \in DOMAIN s}

SeqsUpTo(S, n) == UNION {[1..k -> S] : k \in 0..n}

(***************************************************************************)
(* The input domain: declarations as the parser hands them to expand.      *)
(***************************************************************************)
\* ast::FunctionKind; only Constructor is told apart by expand.
FunctionKinds == {"Function", "Constructor", "Modifier"}

FunctionNames == {"f", "g"}

ParamNames == {"a"}

\* Types as written in the declaration: an elementary type, a custom type
\* the context knows (a user-defined value type over uint256), and a custom
\* type the context does not know.
Types == {"address", "Price", "Missing"}

VarDecls == [name : {None} \cup {Some(n) : n \in ParamNames}, ty : Types]

\* The attributes of an item: the #[sol(...)] options, whether the
\* #[sol(...)] list is well formed, and the other attributes.
OptBool == {None, Some(TRUE), Some(FALSE)}

ItemAttrs ==
    [valid : {TRUE}, docs : OptBool, abi : {None}, others : {<<"inline">>}]
    \cup [valid : {TRUE}, docs : {None}, abi : {Some(TRUE)}, others : {<<"inline">>}]
    \cup [valid : {FALSE}, docs : {None}, abi : {None}, others : {<<"inline">>}]

ItemFunctions ==
    [attrs : ItemAttrs,
     kind : FunctionKinds,
     name : {None} \cup {Some(n) : n \in FunctionNames},
     parameters : SeqsUpTo(VarDecls, MaxParams),
     returns : {None} \cup {Some(r) : r \in SeqsUpTo(VarDecls, MaxReturns)}]

\* ExpCtxt: the items every custom type name resolves to, and the
\* attributes of the enclosing sol! invocation.
AllItems == [Price |-> "uint256"]

Contexts ==
    [all_items : {AllItems},
     attrs : [docs : {None, Some(FALSE)}, abi : {None}, all_derives : {None}]
             \cup [docs : {None, Some(FALSE)}, abi : {Some(TRUE)},
                   all_derives : {Some(TRUE)}]]

(***************************************************************************)
(* Collaborators of expand that live in the sibling modules of the crate.  *)
(***************************************************************************)
Elementary == {"address", "uint256", "bool"}

\* Parameters::types
types(params) == [i \in DOMAIN params |-> params[i].ty]

\* ExpCtxt::assert_resolved: TRUE when every type is elementary or names an
\* item of the context; FALSE is the error "unresolved type".
assert_resolved(c, params) ==
    \A i \in DOMAIN params :
        params[i].ty \in Elementary \/ params[i].ty \in DOMAIN c.all_items

\* SolAttrs::parse: splits the attributes into the #[sol(...)] options and
\* the others; an ill-formed #[sol(...)] list is an error.
SolAttrs_parse(attrs) ==
    IF attrs.valid
    THEN [ok |-> TRUE, sol_attrs |-> [docs |-> attrs.docs, abi |-> attrs.abi],
          others |-> attrs.others]
    ELSE [ok |-> FALSE, sol_attrs |-> [docs |-> None, abi |-> None], others |-> <<>>]

\* ExpCtxt::derives: pushes a #[derive(...)] attribute when the invocation
\* asks for all derives.
derives(c, attrs, params) ==
    IF c.attrs.all_derives = Some(TRUE) THEN Append(attrs, "derive") ELSE attrs

\* The name of an unnamed parameter is made from its index.
AnonNames == <<"_0", "_1", "_2", "_3", "_4", "_5">>
anon_name(i, name) == IF name # None THEN name[1] ELSE AnonNames[i]

\* The Rust type a Solidity type is bound to.
expand_type(c, ty) ==
    IF ty \in DOMAIN c.all_items THEN "custom::" \o ty ELSE "sol::" \o ty

\* expand_fields: one public field per parameter, in order.
expand_fields(c, params) ==
    [i \in DOMAIN params |->
        [name |-> anon_name(i, params[i].name), ty |-> expand_type(c, params[i].ty)]]

\* expand_tuple_types: the flat tuple of the parameters' types, in order.
expand_tuple_types(c, tys) == [i \in DOMAIN tys |-> expand_type(c, tys[i])]

\* expand_from_into_tuples: the From impls between the struct `name` and
\* the tuple; each names the struct's fields in parameter order.
expand_from_into_tuples(c, name, params) ==
    [struct |-> name,
     names |-> [i \in DOMAIN params |-> anon_name(i, params[i].name)],
     tuple |-> expand_tuple_types(c, types(params))]

\* expand_tokenize: borrows every field, in order.
expand_tokenize(params) ==
    [i \in DOMAIN params |-> <<"&self", anon_name(i, params[i].name)>>]

\* ExpCtxt::call_name / return_name.
call_name_of(function) == function.name[1] \o "Call"
return_name_of(function) == function.name[1] \o "Return"

\* The canonical ABI name of a type: a custom type prints as the type it
\* resolves to.
abi_name(c, ty) == IF ty \in DOMAIN c.all_items THEN c.all_items[ty] ELSE ty

RECURSIVE join(_, _)
join(toks, sep) ==
    IF Len(toks) = 0 THEN <<>>
    ELSE IF Len(toks) = 1 THEN <<toks[1]>>
    ELSE <<toks[1], sep>> \o join(Tail(toks), sep)

\* ExpCtxt::function_signature: name(type,type,...).
function_signature(c, function) ==
    <<function.name[1], "(">>
        \o join([i \in DOMAIN function.parameters |->
                    abi_name(c, function.parameters[i].ty)], ",")
        \o <<")">>

\* A stand-in for keccak256 over the text: a deterministic digest of the
\* tokens' codes, eight bytes long.
TokenCode(tok) ==
    CASE tok = "f" -> 102
      [] tok = "g" -> 103
      [] tok = "(" -> 40
      [] tok = ")" -> 41
      [] tok = "," -> 44
      [] tok = "address" -> 97
      [] tok = "uint256" -> 117
      [] tok = "bool" -> 98
      [] tok = "a" -> 65
      [] tok = "Price" -> 80
      [] tok = "Missing" -> 77
      [] OTHER -> 63

RECURSIVE absorb(_, _)
absorb(h, text) ==
    IF text = <<>> THEN h
    ELSE absorb((h * 33 + TokenCode(Head(text))) % 65521, Tail(text))

keccak256(text) ==
    LET h1 == absorb(5381, text)
        h2 == absorb(h1, text)
        h3 == absorb(h2, text)
        h4 == absorb(h3, text)
    IN <<h1 \div 256, h1 % 256, h2 \div 256, h2 % 256,
         h3 \div 256, h3 % 256, h4 \div 256, h4 % 256>>

SelectorLen == 4

\* utils::selector: the first four bytes of the hash of the signature.
selector(signature) == SubSeq(keccak256(signature), 1, SelectorLen)

\* hex::encode_prefixed.
HexDigits == <<"0", "1", "2", "3", "4", "5", "6", "7",
               "8", "9", "a", "b", "c", "d", "e", "f">>

RECURSIVE hex_encode(_)
hex_encode(bytes) ==
    IF bytes = <<>> THEN <<>>
    ELSE <<HexDigits[(Head(bytes) \div 16) + 1], HexDigits[(Head(bytes) % 16) + 1]>>
            \o hex_encode(Tail(bytes))

hex_encode_prefixed(bytes) == <<"0x">> \o hex_encode(bytes)

\* to_abi::generate
to_abi_generate(c, function) ==
    [name |-> function.name[1],
     inputs |-> [i \in DOMAIN function.parameters |->
                    abi_name(c, function.parameters[i].ty)]]

(***************************************************************************)
(* syn::Result<TokenStream>.                                               *)
(***************************************************************************)
Ok(tokens) == [ok |-> TRUE, tokens |-> tokens, err |-> "none"]
Err(e) == [ok |-> FALSE, tokens |-> <<>>, err |-> e]


(***************************************************************************)
(* expand_constructor (function.rs:154-200).                               *)
(***************************************************************************)
\* Variant: the constructor's struct named after the declaration when it
\* carries a name.
constructor_call_name_declared(constructor) ==
    IF constructor.name # None THEN constructor.name[1] \o "Call" ELSE "constructorCall"

\* let call_name = format_ident!("constructorCall");
constructor_call_name(constructor) == "constructorCall"

\* The doc attribute of the constructor's struct.
constructor_call_doc(docs, constructor) ==
    then(docs, [text |-> "Constructor", source |-> constructor])

expand_constructor(c, constructor) ==
    LET parsed == SolAttrs_parse(constructor.attrs)
        parameters == constructor.parameters
    IN  IF ~parsed.ok THEN Err("attribute")
        ELSE
        LET call_attrs == parsed.others
            docs == unwrap_or(or(parsed.sol_attrs.docs, c.attrs.docs), TRUE)
            call_name == constructor_call_name(constructor)
            call_fields == expand_fields(c, parameters)
            call_tuple == expand_tuple_types(c, types(parameters))
            converts == expand_from_into_tuples(c, call_name, parameters)
            tokenize_impl == expand_tokenize(parameters)
            call_doc == constructor_call_doc(docs, constructor)
        IN Ok(<<
            [item |-> "struct", name |-> call_name, attrs |-> call_attrs,
             doc |-> call_doc, fields |-> call_fields],
            [item |-> "convert", converts |-> converts],
            [item |-> "impl", trait |-> "SolConstructor", for |-> call_name,
             Parameters |-> call_tuple, tokenize |-> tokenize_impl]
           >>)

(***************************************************************************)
(* expand (function.rs:26-152).                                            *)
(***************************************************************************)
\* let returns = returns.as_ref().map(|r| &r.returns).unwrap_or_default();
function_returns(function) ==
    IF function.returns = None THEN <<>> ELSE function.returns[1]

\* cx.assert_resolved(parameters)?; if !returns.is_empty() { ...(returns)?; }
function_resolved(c, parameters, returns) ==
    /\ assert_resolved(c, parameters)
    /\ returns # <<>> => assert_resolved(c, returns)

\* let return_fields = expand_fields(returns);
function_return_fields(c, parameters, returns) == expand_fields(c, returns)

\* Variant: the return tuple built from the parameters.
function_return_tuple_of_parameters(c, parameters, returns) ==
    expand_tuple_types(c, types(parameters))

\* let return_tuple = expand_tuple_types(returns.types()).0;
function_return_tuple(c, parameters, returns) ==
    expand_tuple_types(c, types(returns))

\* Variant: the Return conversions built from the parameters.
function_return_converts_of_parameters(c, return_name, parameters, returns) ==
    expand_from_into_tuples(c, return_name, parameters)

\* let return_converts = expand_from_into_tuples(&return_name, returns);
function_return_converts(c, return_name, parameters, returns) ==
    expand_from_into_tuples(c, return_name, returns)

\* The declaration as written: name(type name,type name,...).
declaration_text(function) ==
    <<function.name[1], "(">>
        \o join([i \in DOMAIN function.parameters |->
                    function.parameters[i].ty
                        \o (IF function.parameters[i].name = None THEN ""
                            ELSE " " \o function.parameters[i].name[1])], ",")
        \o <<")">>

\* Variant: the signature taken from the declaration as written, parameter
\* names included.
function_signature_text_declared(c, function) == declaration_text(function)

\* let signature = cx.function_signature(function);
function_signature_text(c, function) == function_signature(c, function)

\* Variant: the selector hashed from the declaration as written.
function_selector_declared(signature, function) == selector(declaration_text(function))

\* let selector = crate::utils::selector(&signature);
function_selector(signature, function) == selector(signature)

\* Variant: the doc shows the declaration as written in place of the
\* signature.
function_call_doc_declared(docs, signature, sel, function) ==
    then(docs, [text |-> "Function", signature |-> declaration_text(function),
                selector |-> hex_encode_prefixed(sel), source |-> function])

\* The doc attribute of the Call struct: signature, hex selector, source.
function_call_doc(docs, signature, sel, function) ==
    then(docs, [text |-> "Function", signature |-> signature,
                selector |-> hex_encode_prefixed(sel), source |-> function])

\* The doc attribute of the Return struct.
function_return_doc(docs, signature, call_name) ==
    then(docs, [text |-> "Container", signature |-> signature, link |-> call_name])

\* Variant: no Return struct for an empty return list.
function_return_struct_if_any(return_name, return_attrs, return_doc, return_fields) ==
    IF return_fields = <<>> THEN <<>>
    ELSE <<[item |-> "struct", name |-> return_name, attrs |-> return_attrs,
            doc |-> return_doc, fields |-> return_fields]>>

\* pub struct #return_name { #(#return_fields),* }
function_return_struct(return_name, return_attrs, return_doc, return_fields) ==
    <<[item |-> "struct", name |-> return_name, attrs |-> return_attrs,
       doc |-> return_doc, fields |-> return_fields]>>

\* The part of expand after the early returns (function.rs:45-151).
expand_function(c, function, returns) ==
    LET parameters == function.parameters
        parsed == SolAttrs_parse(function.attrs)
    IN  IF ~parsed.ok THEN Err("attribute")
        ELSE
        LET call_attrs == derives(c, parsed.others, parameters)
            return_attrs == IF returns # <<>>
                            THEN derives(c, parsed.others, returns)
                            ELSE parsed.others
            docs == unwrap_or(or(parsed.sol_attrs.docs, c.attrs.docs), TRUE)
            abi == unwrap_or(or(parsed.sol_attrs.abi, c.attrs.abi), FALSE)
            call_name == call_name_of(function)
            return_name == return_name_of(function)
            call_fields == expand_fields(c, parameters)
            return_fields == function_return_fields(c, parameters, returns)
            call_tuple == expand_tuple_types(c, types(parameters))
            return_tuple == function_return_tuple(c, parameters, returns)
            converts == expand_from_into_tuples(c, call_name, parameters)
            return_converts ==
                function_return_converts(c, return_name, parameters, returns)
            signature == function_signature_text(c, function)
            sel == function_selector(signature, function)
            tokenize_impl == expand_tokenize(parameters)
            call_doc == function_call_doc(docs, signature, sel, function)
            return_doc == function_return_doc(docs, signature, call_name)
            abi_impl == then(abi,
                [item |-> "impl", trait |-> "JsonAbiExt", for |-> call_name,
                 abi |-> to_abi_generate(c, function)])
        IN Ok(<<[item |-> "struct", name |-> call_name, attrs |-> call_attrs,
                 doc |-> call_doc, fields |-> call_fields]>>
              \o function_return_struct(return_name, return_attrs, return_doc,
                                        return_fields)
              \o <<[item |-> "convert", converts |-> converts],
                   [item |-> "convert", converts |-> return_converts],
                   [item |-> "impl", trait |-> "SolCall", for |-> call_name,
                    Parameters |-> call_tuple, Return |-> return_name,
                    ReturnTuple |-> return_tuple, SIGNATURE |-> signature,
                    SELECTOR |-> sel, tokenize |-> tokenize_impl]>>
              \o abi_impl)

\* Variant: the types are checked before the unnamed item is skipped.
expand_checks_first(c, function) ==
    IF function.kind = "Constructor" THEN expand_constructor(c, function)
    ELSE IF ~function_resolved(c, function.parameters, function_returns(function))
    THEN Err("unresolved")
    ELSE IF is_none(function.name) THEN Ok(<<>>)
    ELSE expand_function(c, function, function_returns(function))

expand(c, function) ==
    IF function.kind = "Constructor" THEN expand_constructor(c, function)
    ELSE IF is_none(function.name) THEN Ok(<<>>)
    ELSE
    LET returns == function_returns(function)
    IN  IF ~function_resolved(c, function.parameters, returns)
        THEN Err("unresolved")
        ELSE expand_function(c, function, returns)

(***************************************************************************)
(* The generated conversions, as the compiler runs them.  A value of a     *)
(* struct is a function from its field names; a value of a tuple is a      *)
(* sequence.  A conversion that does not type-check has ok = FALSE.        *)
(***************************************************************************)
ValuesOf(ty) ==
    CASE ty = "sol::address" -> {"0xA", "0xB"}
      [] ty = "custom::Price" -> {"1", "2"}
      [] OTHER -> {}

AllValues == {"0xA", "0xB", "1", "2"}

TupleValues(tys) ==
    {x \in [DOMAIN tys -> AllValues] : \A i \in DOMAIN tys : x[i] \in ValuesOf(tys[i])}

FieldNames(fields) == {fields[i].name : i \in DOMAIN fields}

StructValues(fields) ==
    {r \in [FieldNames(fields) -> AllValues] :
        \A i \in DOMAIN fields : r[fields[i].name] \in ValuesOf(fields[i].ty)}

\* impl From<tuple> for struct: Self { #(#names: tuple.#idxs),* }
from_tuple(converts, tuple) ==
    IF Len(tuple) = Len(converts.names)
    THEN [ok |-> TRUE,
          v |-> [n \in Range(converts.names) |->
                    tuple[CHOOSE i \in DOMAIN converts.names : converts.names[i] = n]]]
    ELSE [ok |-> FALSE, v |-> <<>>]

\* impl From<struct> for tuple: (#(value.#names,)*)
into_tuple(converts, value) ==
    IF Range(converts.names) = DOMAIN value
    THEN [ok |-> TRUE, v |-> [i \in DOMAIN converts.names |-> value[converts.names[i]]]]
    ELSE [ok |-> FALSE, v |-> <<>>]

Artifacts(tokens, kind) == {tokens[k] : k \in {j \in DOMAIN tokens : tokens[j].item = kind}}

Structs(tokens) == Artifacts(tokens, "struct")
Impls(tokens) == {a \in Artifacts(tokens, "impl") : a.trait \in {"SolCall", "SolConstructor"}}
ConvertsFor(tokens, name) ==
    {a.converts : a \in {b \in Artifacts(tokens, "convert") : b.converts.struct = name}}

(***************************************************************************)
(* The state machine: a sol! invocation with context cx whose items are    *)
(* handed to expand, one call each.  out[i] is None until expand has been  *)
(* called on items[i], then the Result.  conv is the last conversion run   *)
(* on a generated binding.                                                 *)
(***************************************************************************)
Init ==
    /\ cx \in Contexts
    /\ items = <<>>
    /\ out = <<>>
    /\ conv = None

\* One call of expand on a single item drawn from `functions`.
ExpandFrom(functions) ==
    /\ items = <<>>
    /\ \E function \in functions :
        /\ items' = <<function>>
        /\ out' = <<Some(expand(cx, function))>>
    /\ UNCHANGED <<cx, conv>>

Expand == ExpandFrom(ItemFunctions)

Next == Expand

Spec == Init /\ [][Next]_vars

(***************************************************************************)
(* Several items of one invocation, expanded in any order.                 *)
(***************************************************************************)
BatchParams ==
    {<<[name |-> Some("a"), ty |-> "address"]>>,
     <<[name |-> None, ty |-> "address"]>>,
     <<[name |-> None, ty |-> "Missing"]>>,
     <<[name |-> Some("a"), ty |-> "address"], [name |-> None, ty |-> "Price"]>>}

BatchAttrs ==
    {[valid |-> TRUE, docs |-> d, abi |-> None, others |-> <<"inline">>] :
        d \in {None, Some(FALSE)}}

BatchFunctions ==
    [attrs : BatchAttrs, kind : {"Function"}, name : {Some("f")},
     parameters : BatchParams,
     returns : {None, Some(<<[name |-> None, ty |-> "Price"]>>)}]
    \cup
    [attrs : BatchAttrs, kind : {"Constructor"}, name : {None},
     parameters : BatchParams,
     returns : {None, Some(<<[name |-> None, ty |-> "Price"]>>)}]

InitBatch ==
    /\ cx \in {c \in Contexts : c.attrs.abi = None}
    /\ items = <<>>
    /\ out = <<>>
    /\ conv = None

\* The parser hands over one more item.
Parse ==
    /\ Len(items) < MaxItems
    /\ \E function \in BatchFunctions :
        /\ items' = Append(items, function)
        /\ out' = Append(out, None)
    /\ UNCHANGED <<cx, conv>>

\* Variant: the call writes the item's docs option back into the context.
ExpandItem_writes_context(i) ==
    /\ out[i] = None
    /\ out' = [out EXCEPT ![i] = Some(expand(cx, items[i]))]
    /\ cx' = [cx EXCEPT !.attrs.docs = or(items[i].attrs.docs, cx.attrs.docs)]
    /\ UNCHANGED <<items, conv>>

\* One call of expand(cx, &items[i]): it reads cx and the item and returns
\* the Result.
ExpandItem(i) ==
    /\ out[i] = None
    /\ out' = [out EXCEPT ![i] = Some(expand(cx, items[i]))]
    /\ UNCHANGED <<cx, items, conv>>

NextBatch == Parse \/ \E i \in DOMAIN items : ExpandItem(i)

SpecBatch == InitBatch /\ [][NextBatch]_vars

(***************************************************************************)
(* The conversions of the generated bindings, run on values.               *)
(***************************************************************************)
\* Well-formed, resolved items: distinct parameter names, as the language
\* requires.
DistinctNames(params) ==
    \A i, j \in DOMAIN params :
        (i # j /\ params[i].name # None) => params[i].name # params[j].name

Resolved(params) ==
    \A i \in DOMAIN params : params[i].ty \in Elementary \cup DOMAIN AllItems

ConvertFunctions ==
    {f \in ItemFunctions :
        /\ f.kind \in {"Function", "Constructor"}
        /\ f.name = Some("f")
        /\ f.attrs.valid /\ f.attrs.docs = None /\ f.attrs.abi = None
        /\ Resolved(f.parameters) /\ DistinctNames(f.parameters)
        /\ Resolved(function_returns(f)) /\ DistinctNames(function_returns(f))}

ExpandConvertible == ExpandFrom(ConvertFunctions)

\* The tokens of the expanded item, once expand has returned Ok.
Emitted == IF out # <<>> /\ out[1] # None /\ out[1][1].ok THEN out[1][1].tokens ELSE <<>>

\* tuple -> struct -> tuple through the From impls of struct `name`.
RoundTripFromTuple(op, name, x) ==
    \E cv \in ConvertsFor(Emitted, name) :
        LET value == from_tuple(cv, x)
            back == IF value.ok THEN into_tuple(cv, value.v) ELSE value
        IN conv' = Some([op |-> op, struct |-> name, ok |-> value.ok /\ back.ok,
                         tuple |-> x, value |-> value.v, back |-> back.v])

\* SolCall::new / SolConstructor::new: tuple.into()
New ==
    /\ conv = None
    /\ \E im \in Impls(Emitted) :
         \E x \in TupleValues(im.Parameters) : RoundTripFromTuple("new", im.for, x)
    /\ UNCHANGED <<cx, items, out>>

\* SolCall::abi_decode_returns: the decoded ReturnTuple .map(Into::into)
AbiDecodeReturns ==
    /\ conv = None
    /\ \E im \in {a \in Impls(Emitted) : a.trait = "SolCall"} :
         \E x \in TupleValues(im.ReturnTuple) :
            RoundTripFromTuple("abi_decode_returns", im.Return, x)
    /\ UNCHANGED <<cx, items, out>>

\* struct -> tuple -> struct through the From impls of a generated struct.
IntoTuple ==
    /\ conv = None
    /\ \E st \in Structs(Emitted) :
         \E r \in StructValues(st.fields) :
          \E cv \in ConvertsFor(Emitted, st.name) :
            LET tuple == into_tuple(cv, r)
                back == IF tuple.ok THEN from_tuple(cv, tuple.v) ELSE tuple
            IN conv' = Some([op |-> "into", struct |-> st.name,
                             ok |-> tuple.ok /\ back.ok,
                             tuple |-> tuple.v, value |-> r, back |-> back.v])
    /\ UNCHANGED <<cx, items, out>>

NextConvert == ExpandConvertible \/ New \/ AbiDecodeReturns \/ IntoTuple

SpecConvert == Init /\ [][NextConvert]_vars
(***************************************************************************)
(* Properties.                                                             *)
(***************************************************************************)
Done == {i \in DOMAIN items : out[i] # None}
Result(i) == out[i][1]

IsConstructor(f) == f.kind = "Constructor"
IsNamedFunction(f) == f.kind # "Constructor" /\ f.name # None

UnresolvedIn(params) ==
    \E i \in DOMAIN params :
        params[i].ty \notin Elementary /\ params[i].ty \notin DOMAIN cx.all_items

\* Some parameter type or some return type of f is unresolved.
HasUnresolved(f) ==
    UnresolvedIn(f.parameters) \/ UnresolvedIn(function_returns(f))

NoArtifact(r) == r.tokens = <<>>

StructsNamed(r, name) == {k \in DOMAIN r.tokens :
                            r.tokens[k].item = "struct" /\ r.tokens[k].name = name}

CallImpls(r) == {a \in Artifacts(r.tokens, "impl") : a.trait = "SolCall"}

\* C1: a declaration of any kind with an unresolved parameter or return
\* type is rejected with a resolution error and emits no artifact.
C1_UnresolvedRejected ==
    \A i \in Done :
        HasUnresolved(items[i]) =>
            /\ ~Result(i).ok
            /\ Result(i).err = "unresolved"
            /\ NoArtifact(Result(i))

\* The Call and Return structs of a named function are both emitted, once
\* each, and an absent or empty return list gives a Return struct with no
\* field and a zero-arity ReturnTuple.
CallAndReturnEmitted(i) ==
    LET f == items[i]
        r == Result(i)
        call == f.name[1] \o "Call"
        ret == f.name[1] \o "Return"
    IN  /\ r.ok
        /\ Cardinality(StructsNamed(r, call)) = 1
        /\ Cardinality(StructsNamed(r, ret)) = 1
        /\ Cardinality(CallImpls(r)) = 1
        /\ \A im \in CallImpls(r) : im.for = call /\ im.Return = ret
        /\ function_returns(f) = <<>> =>
              /\ \A k \in StructsNamed(r, ret) : r.tokens[k].fields = <<>>
              /\ \A im \in CallImpls(r) : im.ReturnTuple = <<>>

ConstructorCallOnly(i) ==
    LET r == Result(i)
    IN  /\ r.ok
        /\ Cardinality({k \in DOMAIN r.tokens : r.tokens[k].item = "struct"}) = 1
        /\ Cardinality(StructsNamed(r, "constructorCall")) = 1
        /\ CallImpls(r) = {}
        /\ \A a \in Artifacts(r.tokens, "impl") :
              /\ a.trait = "SolConstructor"
              /\ a.for = "constructorCall"
              /\ {"SIGNATURE", "SELECTOR", "Return", "ReturnTuple"}
                    \cap DOMAIN a = {}
        /\ Cardinality(Artifacts(r.tokens, "impl")) = 1

C4_UnnamedSkipped ==
    \A i \in Done :
        (~IsConstructor(items[i]) /\ items[i].name = None)
            => Result(i) = Ok(<<>>)

\* An unnamed modifier with an unresolved type and ill-formed attributes
\* has been skipped.
C4_Witness ==
    \E i \in Done :
        /\ items[i].kind = "Modifier"
        /\ items[i].name = None
        /\ HasUnresolved(items[i])
        /\ ~items[i].attrs.valid
        /\ Result(i).ok

\* C5: the SELECTOR of a named function is the first four bytes of the
\* hash of the signature made of its name and parameter types, and two
\* expansions of the same declaration give the same bytes.
C5_SelectorOfSignature ==
    /\ \A i \in Done :
        (IsNamedFunction(items[i]) /\ Result(i).ok) =>
            \A im \in CallImpls(Result(i)) :
                /\ Len(im.SELECTOR) = SelectorLen
                /\ im.SELECTOR =
                    SubSeq(keccak256(function_signature(cx, items[i])), 1, SelectorLen)
    /\ \A i, j \in Done :
        (items[i] = items[j] /\ Result(i).ok /\ Result(j).ok) =>
            \A a \in CallImpls(Result(i)), b \in CallImpls(Result(j)) :
                a.SELECTOR = b.SELECTOR

\* The same named function, with a named parameter, has been expanded
\* twice.
C5_Witness ==
    \E i, j \in Done :
        /\ i # j
        /\ items[i] = items[j]
        /\ IsNamedFunction(items[i])
        /\ \E k \in DOMAIN items[i].parameters : items[i].parameters[k].name # None
        /\ CallImpls(Result(i)) # {}
        /\ CallImpls(Result(j)) # {}

SameNameAndTypes(f, g) ==
    /\ f.name = g.name
    /\ types(f.parameters) = types(g.parameters)

\* C6: two named functions with the same name and the same parameter
\* types have the same SIGNATURE and the same SELECTOR, whatever their
\* parameter names, return lists and attributes.
C6_SignatureOfNameAndTypes ==
    \A i, j \in Done :
        (IsNamedFunction(items[i]) /\ IsNamedFunction(items[j])
            /\ SameNameAndTypes(items[i], items[j])) =>
            \A a \in CallImpls(Result(i)), b \in CallImpls(Result(j)) :
                a.SIGNATURE = b.SIGNATURE /\ a.SELECTOR = b.SELECTOR

\* Two expanded functions of the same name and types differ in a
\* parameter name, in the return list and in the attributes.
C6_Witness ==
    \E i, j \in Done :
        /\ IsNamedFunction(items[i]) /\ IsNamedFunction(items[j])
        /\ SameNameAndTypes(items[i], items[j])
        /\ items[i].parameters # items[j].parameters
        /\ items[i].returns # items[j].returns
        /\ items[i].attrs # items[j].attrs
        /\ CallImpls(Result(i)) # {}
        /\ CallImpls(Result(j)) # {}

\* The struct and the tuple type a conversion of struct `name` works on.
FieldsOf(name) == {st.fields : st \in {t \in Structs(Emitted) : t.name = name}}
TupleOf(name) ==
    {im.Parameters : im \in {a \in Impls(Emitted) : a.for = name}}
    \cup {im.ReturnTuple :
            im \in {a \in Impls(Emitted) : a.trait = "SolCall" /\ a.Return = name}}

\* C7: on every emitted binding the conversion from the tuple and the
\* conversion into the tuple are total and inverse of each other: a tuple
\* gives a value of the struct that converts back into the same tuple, and
\* a value of the struct gives a tuple of the binding's tuple type that
\* converts back into the same value.
C7_TupleRoundTrip ==
    conv # None =>
        LET cv == conv[1]
        IN  /\ cv.ok
            /\ \A fields \in FieldsOf(cv.struct) : cv.value \in StructValues(fields)
            /\ \A tys \in TupleOf(cv.struct) : cv.tuple \in TupleValues(tys)
            /\ cv.op \in {"new", "abi_decode_returns"} => cv.back = cv.tuple
            /\ cv.op = "into" => cv.back = cv.value

\* A tuple of two different values has been turned into a Call struct
\* and back.
C7_Witness ==
    /\ conv # None
    /\ conv[1].op = "new"
    /\ conv[1].ok
    /\ Len(conv[1].tuple) >= 2
    /\ conv[1].tuple[1] # conv[1].tuple[2]
    /\ conv[1].back = conv[1].tuple

\* The fields, the tuple type and the source list agree in length and, at
\* every position, in type.
Aligned(fields, tuple, params) ==
    /\ Len(fields) = Len(tuple)
    /\ Len(tuple) = Len(params)
    /\ \A k \in DOMAIN params :
        /\ fields[k].ty = tuple[k]
        /\ tuple[k] = expand_type(cx, params[k].ty)

\* C8: in every emitted binding the struct's fields, the tuple type and
\* the source parameter (or return) list have the same length and the same
\* type at each position.
C8_FieldsTupleSourceAligned ==
    \A i \in Done :
        LET f == items[i]
            r == Result(i)
        IN  r.ok =>
            \A im \in Impls(r.tokens) :
                /\ \A k \in StructsNamed(r, im.for) :
                    Aligned(r.tokens[k].fields, im.Parameters, f.parameters)
                /\ im.trait = "SolCall" =>
                    \A k \in StructsNamed(r, im.Return) :
                        Aligned(r.tokens[k].fields, im.ReturnTuple, function_returns(f))

\* A function with parameters of two different types and a return value
\* has been expanded.
C8_Witness ==
    \E i \in Done :
        /\ IsNamedFunction(items[i])
        /\ Len(items[i].parameters) >= 2
        /\ items[i].parameters[1].ty # items[i].parameters[2].ty
        /\ Len(function_returns(items[i])) >= 1
        /\ Len(function_returns(items[i])) # Len(items[i].parameters)
        /\ CallImpls(Result(i)) # {}

\* The bytes a "0x" hex text stands for.
HexValue(digit) == (CHOOSE n \in DOMAIN HexDigits : HexDigits[n] = digit) - 1

RECURSIVE hex_decode(_)
hex_decode(text) ==
    IF Len(text) < 2 THEN <<>>
    ELSE <<HexValue(text[1]) * 16 + HexValue(text[2])>> \o hex_decode(SubSeq(text, 3, Len(text)))

\* C9: for every named function the signature in the Call struct's doc,
\* the SIGNATURE constant and the text the SELECTOR is derived from are the
\* same text, and the selector in the doc is the hex form of SELECTOR.
C9_DocSignatureSelector ==
    \A i \in Done :
        (IsNamedFunction(items[i]) /\ Result(i).ok) =>
            \A im \in CallImpls(Result(i)) :
                /\ im.SELECTOR = selector(im.SIGNATURE)
                /\ \A k \in StructsNamed(Result(i), im.for) :
                    LET doc == Result(i).tokens[k].doc
                    IN doc # None =>
                        /\ doc[1].signature = im.SIGNATURE
                        /\ Head(doc[1].selector) = "0x"
                        /\ hex_decode(Tail(doc[1].selector)) = im.SELECTOR

\* A documented function with a named parameter has been expanded.
C9_Witness ==
    \E i \in Done :
        /\ IsNamedFunction(items[i])
        /\ \E k \in DOMAIN items[i].parameters : items[i].parameters[k].name # None
        /\ \E im \in CallImpls(Result(i)) :
            \E k \in StructsNamed(Result(i), im.for) : Result(i).tokens[k].doc # None

====
